---- MODULE Spec2Model ----
(***************************************************************************)
(* Model of xfuse's name-based getters (xfuse/utility/state/getters.py)   *)
(* and of the session item that swaps the active pyro parameter store     *)
(* (hssl/session/item/param_store.py).                                     *)
(*                                                                         *)
(* Python objects are modelled by their identity: a parameter store by an  *)
(* index, a tensor by the storage it views plus its requires_grad flag, a  *)
(* module by the call of its factory that constructed it.  Values live in  *)
(* heaps indexed by these identities, so aliasing (detach(), in-place      *)
(* load_state_dict, in-place optimiser steps) is visible.                  *)
(***************************************************************************)
EXTENDS Naturals, FiniteSets, Sequences, TLC

\* ------------------------------------------------------------------ bounds
NumStores == 2            \* parameter-store instances a session can swap in
MaxInvocations == 2       \* factory invocations modelled per name

\* ----------------------------------------------------------------- universe
Stores == 0 .. (NumStores - 1)

None == "None"

\* pyro.poutine.runtime._MODULE_NAMESPACE_DIVIDER, used by pyro.module to
\* build the store key of a module's parameter.
param_with_module_name(name, pname) == name \o "$$$" \o pname

\* Module names requested by callers, and the architecture their factories
\* build: "m" has one trainable parameter "w", "n" has none.
ModuleNames == {"m", "n"}
named_parameters(name) == IF name = "m" THEN {"w"} ELSE {}

\* Parameter names requested through get_param.  The second one is the store
\* key pyro.module gives to the parameter of module "m": callers look it up
\* (default_value=None) but never create a parameter under a namespaced key.
ParamNames == {"p", param_with_module_name("m", "w")}

StoreKeys == ParamNames \cup
    UNION {{param_with_module_name(n, pn) : pn \in named_parameters(n)} : n \in ModuleNames}

\* A storage is identified by the name it was made for and by which call made
\* it: 0 is the tensor held by the saved snapshot, k > 0 the k-th invocation of
\* the factory or default_value given for that name.
Names == ModuleNames \cup ParamNames
Storage == Names \X (0 .. MaxInvocations)
NoStorage == <<"", 0>>

ModuleIds == ModuleNames \X (1 .. MaxInvocations)
NoModule == <<"", 0>>

\* A tensor object: the storage it views and whether it is gradient-tracked.
Tensor(s, rg) == [data |-> s, requires_grad |-> rg]
NoTensor == Tensor(NoStorage, FALSE)

\* torch.Tensor.detach(): a view of the same storage, cut from the graph.
detach(t) == Tensor(t.data, FALSE)

\* The store that was active when param_store.py was imported.
ImportStore == 0

VARIABLES
    runtime_PYRO_PARAM_STORE,      \* pyro.poutine.runtime._PYRO_PARAM_STORE
    primitives_PYRO_PARAM_STORE,   \* pyro.primitives._PYRO_PARAM_STORE
    primitives_param,              \* store whose get_param pyro.primitives._param wraps
    _DEFAULT_STORE,                \* store captured at import
    _params,                       \* ParamStoreDict._params of every store: key -> storage
    __MODULES,                     \* module registry: name -> module
    __STATE_DICT,                  \* saved state: [modules, params]
    modules,                       \* heap of module objects
    values,                        \* heap of tensor storages: storage -> value
    eval,                          \* session flag "eval"
    invoked,                       \* per name, how often its factory has been invoked
    lastCall                       \* the last call made and what it returned

vars == <<runtime_PYRO_PARAM_STORE, primitives_PYRO_PARAM_STORE, primitives_param,
          _DEFAULT_STORE, _params, __MODULES, __STATE_DICT, modules, values,
          eval, invoked, lastCall>>

pointers == <<runtime_PYRO_PARAM_STORE, primitives_PYRO_PARAM_STORE, primitives_param>>

NoError == <<>>

Call(op, name, arg, error, retModule, retParam, called, loaded) ==
    [op |-> op, name |-> name, arg |-> arg, eval |-> eval, error |-> error,
     retModule |-> retModule, retParam |-> retParam, called |-> called,
     loaded |-> loaded]

\* ------------------------------------------------------------------- Init
\* State after import: both layers of pyro share one store, which the session
\* item captures as its default; every store is empty; nothing has been
\* requested yet.  The saved-state dictionary holds an arbitrary snapshot.
\* The snapshot may or may not hold each module and the parameter "p"; it
\* holds no parameter under a namespaced key.
SavedModules == [ModuleNames -> {None, "saved"}]
SavedParams == {f \in [ParamNames -> {NoTensor, Tensor(<<"p", 0>>, FALSE)}] :
                   \A n \in ParamNames : n # "p" => f[n] = NoTensor}

NoModuleObject == [w |-> NoStorage, training |-> FALSE, live |-> FALSE]

Init ==
    /\ runtime_PYRO_PARAM_STORE = ImportStore
    /\ primitives_PYRO_PARAM_STORE = runtime_PYRO_PARAM_STORE
    /\ primitives_param = runtime_PYRO_PARAM_STORE
    /\ _DEFAULT_STORE = runtime_PYRO_PARAM_STORE
    /\ _params = [s \in Stores |-> [k \in StoreKeys |-> NoStorage]]
    /\ __MODULES = [n \in ModuleNames |-> NoModule]
    /\ \E sm \in SavedModules, sp \in SavedParams :
          __STATE_DICT = [modules |-> sm, params |-> sp]
    /\ modules = [i \in ModuleIds |-> NoModuleObject]
    /\ values = [s \in Storage |->
                   IF s[2] = 0 /\ s[1] \in ParamNames /\ __STATE_DICT.params[s[1]] # NoTensor
                   THEN "saved" ELSE None]
    /\ eval = FALSE
    /\ invoked = [n \in Names |-> 0]
    /\ lastCall = Call("import", "", None, NoError, NoModule, NoTensor, FALSE, FALSE)

\* ------------------------------------------------------- param_store.py
\* _setter: both layers and the param primitive are pointed at `store`.
_setter_runtime_only(store) ==
    /\ runtime_PYRO_PARAM_STORE' = store
    /\ UNCHANGED <<primitives_PYRO_PARAM_STORE, primitives_param>>

_setter(store) ==
    /\ runtime_PYRO_PARAM_STORE' = store
    /\ primitives_PYRO_PARAM_STORE' = store
    /\ primitives_param' = store

\* param_store = SessionItem(setter=_setter, default=_DEFAULT_STORE)
param_store_default_current == [default |-> runtime_PYRO_PARAM_STORE]

param_store == [default |-> _DEFAULT_STORE]

\* A session sets the item: the setter is invoked with the session's store.
swap(store) ==
    /\ _setter(store)
    /\ lastCall' = Call("swap", "", store, NoError, NoModule, NoTensor, FALSE, FALSE)
    /\ UNCHANGED <<_DEFAULT_STORE, _params, __MODULES, __STATE_DICT, modules, values,
                   eval, invoked>>

\* A session that does not set the item: the setter is invoked with the default.
restore ==
    /\ _setter(param_store.default)
    /\ lastCall' = Call("restore", "", None, NoError, NoModule, NoTensor, FALSE, FALSE)
    /\ UNCHANGED <<_DEFAULT_STORE, _params, __MODULES, __STATE_DICT, modules, values,
                   eval, invoked>>

\* ------------------------------------------------------------ session flag
\* The session's "eval" item is set or cleared.
set_eval(b) ==
    /\ eval' = b
    /\ lastCall' = Call("set_eval", "", b, NoError, NoModule, NoTensor, FALSE, FALSE)
    /\ UNCHANGED <<pointers, _DEFAULT_STORE, _params, __MODULES, __STATE_DICT, modules,
                   values, invoked>>

\* --------------------------------------------------------------- pyro calls
\* pyro.param(name, init) with no effect handler on the stack is
\* primitives._param(name, init), i.e. get_param of the store _param is bound
\* to: ParamStoreDict.setdefault registers init under name when the name is
\* absent and otherwise leaves the entry alone.  (Default constraint: the
\* registered tensor is init itself, made gradient-tracked in place.)
setdefault(P, name, init) ==
    IF P[primitives_param][name] = NoStorage
    THEN [P EXCEPT ![primitives_param][name] = init]
    ELSE P

\* pyro.module(name, nn_module): every trainable parameter of the module is
\* passed through pyro.param under its namespaced key; the store after it.
pyro_module_noop(P, name, w) == P

pyro_module(P, name, w) ==
    IF named_parameters(name) = {}
    THEN P
    ELSE setdefault(P, param_with_module_name(name, "w"), w)

\* An optimiser step of the training loop updates, in place, a tensor
\* registered in the active store.
optimizer_step(key) ==
    /\ _params[runtime_PYRO_PARAM_STORE][key] # NoStorage
    /\ values' = [values EXCEPT ![_params[runtime_PYRO_PARAM_STORE][key]] = "trained"]
    /\ lastCall' = Call("optimizer_step", key, None, NoError, NoModule, NoTensor, FALSE, FALSE)
    /\ UNCHANGED <<pointers, _DEFAULT_STORE, _params, __MODULES, __STATE_DICT, modules,
                   eval, invoked>>

\* ------------------------------------------------------------ getters.py
\* The RuntimeError of get_module / get_param: its message names the kind of
\* object and the name that was asked for.
RuntimeError_anonymous(kind, name) == <<"RuntimeError", kind, "", "does not exist">>

RuntimeError(kind, name) == <<"RuntimeError", kind, name, "does not exist">>

\* `__MODULES[name]` raises KeyError.
module_missing_always(name) == TRUE

module_missing(name) == __MODULES[name] = NoModule

\* `__MODULES[name] = module_`
register_forgotten(name, mid) == __MODULES

register(name, mid) == [__MODULES EXCEPT ![name] = mid]

\* `if name in __STATE_DICT.modules: module_.load_state_dict(...)`: whether
\* the saved state is applied by a call that finds the name missing (`created`)
\* or cached.
loads_state_on_every_call(name, created) == __STATE_DICT.modules[name] # None

loads_state(name, created) == created /\ __STATE_DICT.modules[name] # None

\* `module_.train(not get("eval"))`: the training mode the call leaves the
\* module in, given the mode it had (a newly constructed module is in
\* training mode).
train_mode_kept(was) == was

train_mode(was) == ~eval

get_module(name, module) ==
    LET created == module_missing(name)
        k       == invoked[name] + 1
        mid     == IF created THEN <<name, k>> ELSE __MODULES[name]
        \* the parameter of the module passed to pyro.module
        w0      == IF ~created THEN modules[mid].w
                   ELSE IF named_parameters(name) = {} THEN NoStorage
                   ELSE <<name, k>>
        P       == pyro_module(_params, name, w0)
        \* update_module_params=True: a parameter the store already held under
        \* the module's key replaces the module's own
        w       == IF created /\ named_parameters(name) # {}
                   THEN P[primitives_param][param_with_module_name(name, "w")]
                   ELSE w0
        load    == loads_state(name, created)
        fresh   == IF created /\ w0 # NoStorage
                   THEN [values EXCEPT ![w0] = "init"] ELSE values
    IN  IF created /\ module = None
        THEN /\ lastCall' = Call("get_module", name, module, RuntimeError("Module", name),
                                 NoModule, NoTensor, FALSE, FALSE)
             /\ UNCHANGED <<pointers, _DEFAULT_STORE, _params, __MODULES, __STATE_DICT,
                            modules, values, eval, invoked>>
        ELSE /\ created => invoked[name] < MaxInvocations
             /\ invoked' = IF created THEN [invoked EXCEPT ![name] = k] ELSE invoked
             /\ _params' = P
             /\ values' = IF load /\ w # NoStorage
                          THEN [fresh EXCEPT ![w] = "saved"] ELSE fresh
             /\ __MODULES' = IF created THEN register(name, mid) ELSE __MODULES
             /\ modules' = [modules EXCEPT ![mid] =
                               [w |-> w,
                                training |-> train_mode(IF created THEN TRUE
                                                        ELSE modules[mid].training),
                                live |-> TRUE]]
             /\ lastCall' = Call("get_module", name, module, NoError, mid, NoTensor,
                                 created, load)
             /\ UNCHANGED <<pointers, _DEFAULT_STORE, __STATE_DICT, eval>>

\* `__STATE_DICT.params[name]` raises KeyError.
param_missing_in_store(name) == _params[primitives_param][name] = NoStorage

param_missing(name) == __STATE_DICT.params[name] = NoTensor

\* `if get("eval"): return param.detach()` / `return param`
returned_tracked(param) == param

returned(param) == IF eval THEN detach(param) ELSE param

get_param(name, default_value) ==
    LET missing == param_missing(name)
        k       == invoked[name] + 1
        init    == IF missing THEN <<name, k>> ELSE __STATE_DICT.params[name].data
        absent  == _params[primitives_param][name] = NoStorage
        P       == setdefault(_params, name, init)
        param   == Tensor(P[primitives_param][name], TRUE)
    IN  IF missing /\ default_value = None
        THEN /\ lastCall' = Call("get_param", name, default_value,
                                 RuntimeError("Parameter", name), NoModule, NoTensor,
                                 FALSE, FALSE)
             /\ UNCHANGED <<pointers, _DEFAULT_STORE, _params, __MODULES, __STATE_DICT,
                            modules, values, eval, invoked>>
        ELSE /\ missing => invoked[name] < MaxInvocations
             /\ invoked' = IF missing THEN [invoked EXCEPT ![name] = k] ELSE invoked
             /\ values' = IF missing THEN [values EXCEPT ![init] = "init"] ELSE values
             /\ _params' = P
             /\ __STATE_DICT' =
                  IF missing
                  THEN [__STATE_DICT EXCEPT !.params[name] = detach(param)]
                  ELSE IF absent
                  \* the saved tensor itself became the store's parameter
                  THEN [__STATE_DICT EXCEPT !.params[name] = Tensor(init, TRUE)]
                  ELSE __STATE_DICT
             /\ lastCall' = Call("get_param", name, default_value, NoError, NoModule,
                                 returned(param), missing, FALSE)
             /\ UNCHANGED <<pointers, _DEFAULT_STORE, __MODULES, modules, eval>>

\* -------------------------------------------------------------------- Next
\* The default_value arguments callers pass for a name: a namespaced key is
\* only looked up.
default_values(name) == IF name = "p" THEN {None, "factory"} ELSE {None}

Next ==
    \/ \E s \in Stores : swap(s)
    \/ restore
    \/ \E b \in BOOLEAN : set_eval(b)
    \/ \E key \in StoreKeys : optimizer_step(key)
    \/ \E name \in ModuleNames, module \in {None, "factory"} : get_module(name, module)
    \/ \E name \in ParamNames : \E default_value \in default_values(name) :
          get_param(name, default_value)

Spec == Init /\ [][Next]_vars

\* ------------------------------------------------------------------ claims
Active == primitives_param
Returned == lastCall.error = NoError
ModuleCall == lastCall.op = "get_module"
ParamCall == lastCall.op = "get_param"

\* C1: once a module has been constructed for a name, every successful
\* get_module call for that name returns that instance and the registry keeps
\* it: no second instance of the name is ever handed out.
C1_SameInstance ==
    (ModuleCall /\ Returned) =>
        /\ __MODULES[lastCall.name] = lastCall.retModule
        /\ \A i \in ModuleIds :
              (i[1] = lastCall.name /\ modules[i].live) => lastCall.retModule = i

\* A cached module is returned to a call that passes a factory, in eval mode,
\* while a swapped-in store is active.
C1_Witness ==
    /\ ModuleCall /\ Returned /\ ~lastCall.called
    /\ lastCall.arg = "factory" /\ lastCall.eval
    /\ runtime_PYRO_PARAM_STORE # ImportStore
    /\ modules[lastCall.retModule].live

\* C2: a lookup of a missing name with no default raises a RuntimeError whose
\* message carries the name, and leaves the module registry, the saved-state
\* dictionary and the stores (and which store is active) as they were.
C2_MissingIsError ==
    [][ /\ (lastCall'.op = "get_module" /\ lastCall'.arg = None
              /\ __MODULES[lastCall'.name] = NoModule)
           => /\ lastCall'.error = <<"RuntimeError", "Module", lastCall'.name, "does not exist">>
              /\ UNCHANGED <<__MODULES, __STATE_DICT, _params, pointers, modules, values>>
        /\ (lastCall'.op = "get_param" /\ lastCall'.arg = None
              /\ __STATE_DICT.params[lastCall'.name] = NoTensor)
           => /\ lastCall'.error = <<"RuntimeError", "Parameter", lastCall'.name, "does not exist">>
              /\ UNCHANGED <<__MODULES, __STATE_DICT, _params, pointers, modules, values>>
      ]_vars

\* get_module raised for one name while another module is registered and the
\* active store holds entries.
C2_Witness ==
    /\ ModuleCall /\ ~Returned
    /\ \E n \in ModuleNames : __MODULES[n] # NoModule
    /\ \E k \in StoreKeys : _params[Active][k] # NoStorage

\* C3: with the eval flag set get_param returns a tensor detached from
\* gradient tracking (a view of the registered parameter), whether the
\* parameter existed or was created by the call; with the flag clear it
\* returns the gradient-tracked parameter registered in the active store.
C3_EvalDetaches ==
    (ParamCall /\ Returned) =>
        /\ lastCall.retParam.data = _params[runtime_PYRO_PARAM_STORE][lastCall.name]
        /\ lastCall.retParam.data # NoStorage
        /\ lastCall.retParam.requires_grad = ~lastCall.eval

\* In eval mode, a call that created the parameter from default_value
\* returned it detached.
C3_Witness ==
    /\ ParamCall /\ Returned /\ lastCall.called /\ lastCall.eval
    /\ ~lastCall.retParam.requires_grad

\* C4: a setter invocation leaves the runtime pointer, the primitives pointer
\* and the store the param primitive is bound to all at its argument, and
\* nothing but a setter invocation moves any of the three.
C4_LayersAgree ==
    [][ IF lastCall'.op = "swap"
        THEN /\ runtime_PYRO_PARAM_STORE' = lastCall'.arg
             /\ primitives_PYRO_PARAM_STORE' = lastCall'.arg
             /\ primitives_param' = lastCall'.arg
        ELSE IF lastCall'.op = "restore"
        THEN /\ primitives_PYRO_PARAM_STORE' = runtime_PYRO_PARAM_STORE'
             /\ primitives_param' = runtime_PYRO_PARAM_STORE'
        ELSE UNCHANGED pointers
      ]_vars

\* A swap to a store other than the import-time one, after a store has been
\* populated.
C4_Witness ==
    /\ lastCall.op = "swap" /\ lastCall.arg # ImportStore
    /\ runtime_PYRO_PARAM_STORE = lastCall.arg
    /\ primitives_PYRO_PARAM_STORE = lastCall.arg
    /\ \E k \in StoreKeys : _params[ImportStore][k] # NoStorage

\* C5: the session item's default stays the import-time store, and invoking
\* the setter with the default points both layers (and the param primitive)
\* back at the import-time store, whatever swaps came before.
C5_DefaultRestores ==
    /\ _DEFAULT_STORE = ImportStore
    /\ lastCall.op = "restore" =>
          /\ runtime_PYRO_PARAM_STORE = ImportStore
          /\ primitives_PYRO_PARAM_STORE = ImportStore
          /\ primitives_param = ImportStore

\* A restore after a session store was swapped in and used.
C5_Witness ==
    /\ lastCall.op = "restore"
    /\ runtime_PYRO_PARAM_STORE = ImportStore
    /\ \E s \in Stores \ {ImportStore} : \E k \in StoreKeys : _params[s][k] # NoStorage

\* C6 as claimed: get_param(name) with no default returns whenever the active
\* store holds a parameter under name.
C6_RetrievesFromStore ==
    (ParamCall /\ lastCall.arg = None /\ _params[Active][lastCall.name] # NoStorage)
        => Returned

\* C6 as amended: get_param(name) with no default raises exactly when name is
\* not among the saved parameters of the saved-state dictionary, whatever the
\* active store holds; otherwise it returns the parameter registered under
\* name in the active store.
C6_RetrievesFromSaved ==
    [][ (lastCall'.op = "get_param" /\ lastCall'.arg = None) =>
           /\ (lastCall'.error # NoError) <=> (__STATE_DICT.params[lastCall'.name] = NoTensor)
           /\ (lastCall'.error = NoError) =>
                 /\ lastCall'.retParam.data = _params'[primitives_param'][lastCall'.name]
                 /\ lastCall'.retParam.data # NoStorage
      ]_vars

\* A parameter saved in the snapshot is retrieved, with no default, into a
\* swapped-in store.
C6_Witness ==
    /\ ParamCall /\ lastCall.arg = None /\ Returned
    /\ runtime_PYRO_PARAM_STORE # ImportStore
    /\ _params[ImportStore][lastCall.name] # NoStorage

\* C7: a factory (module / default_value) is invoked only by a call that
\* supplies it and finds the name missing from the module registry,
\* respectively from the saved parameters, and at most once per name.
C7_Lazy ==
    /\ [](\A n \in Names : invoked[n] <= 1)
    /\ [][ \A n \in Names : invoked'[n] # invoked[n] =>
              /\ lastCall'.name = n
              /\ lastCall'.arg # None
              /\ lastCall'.called
              /\ invoked'[n] = invoked[n] + 1
              /\ IF lastCall'.op = "get_module"
                 THEN __MODULES[n] = NoModule
                 ELSE lastCall'.op = "get_param" /\ __STATE_DICT.params[n] = NoTensor
         ]_vars
    /\ [][ (lastCall'.op \in {"get_module", "get_param"} /\ ~lastCall'.called)
              => invoked' = invoked ]_vars

\* A hit: a call that supplies default_value for a parameter created earlier
\* does not invoke it.
C7_Witness ==
    /\ ParamCall /\ Returned /\ lastCall.arg = "factory" /\ ~lastCall.called
    /\ invoked[lastCall.name] = 1

C9_TrainingMode ==
    [][ IF lastCall'.op = "get_module" /\ lastCall'.error = NoError
        THEN /\ modules'[lastCall'.retModule].training = ~eval
             /\ __MODULES'[lastCall'.name] = lastCall'.retModule
             /\ \A i \in ModuleIds \ {lastCall'.retModule} : modules'[i] = modules[i]
        ELSE modules' = modules
      ]_vars

\* A cached module that was in training mode is switched to eval mode by a
\* later call.
C9_Witness ==
    /\ ModuleCall /\ Returned /\ ~lastCall.called /\ lastCall.eval
    /\ ~modules[lastCall.retModule].training

\* C10 as claimed: after a successful get_module or get_param call the active
\* store holds an entry registered under the name.
C10_EntryUnderName ==
    (Returned /\ (ModuleCall \/ ParamCall)) =>
        \E k \in StoreKeys :
            /\ k = IF ModuleCall THEN param_with_module_name(lastCall.name, "w")
                   ELSE lastCall.name
            /\ _params[Active][k] # NoStorage

\* C10 as amended: after a successful get_module call the active store holds,
\* under its namespaced key, every trainable parameter of the returned module
\* (none for a module without trainable parameters); after a successful
\* get_param call it holds an entry under name; a cached module or a saved
\* parameter is registered without invoking the factory.
C10_EntriesOfParameters ==
    [][ /\ (lastCall'.op = "get_module" /\ lastCall'.error = NoError) =>
              /\ \A pn \in named_parameters(lastCall'.name) :
                    /\ _params'[primitives_param'][param_with_module_name(lastCall'.name, pn)]
                          # NoStorage
                    /\ _params'[primitives_param'][param_with_module_name(lastCall'.name, pn)]
                          = modules'[lastCall'.retModule].w
              /\ __MODULES[lastCall'.name] # NoModule => invoked' = invoked
        /\ (lastCall'.op = "get_param" /\ lastCall'.error = NoError) =>
              /\ _params'[primitives_param'][lastCall'.name] # NoStorage
              /\ __STATE_DICT.params[lastCall'.name] # NoTensor => invoked' = invoked
      ]_vars

\* A cached module has been registered, by calls that did not invoke the
\* factory again, both in the import-time store and in a swapped-in store.
C10_Witness ==
    /\ ModuleCall /\ Returned /\ ~lastCall.called
    /\ runtime_PYRO_PARAM_STORE # ImportStore
    /\ named_parameters(lastCall.name) # {}
    /\ _params[Active][param_with_module_name(lastCall.name, "w")]
          = modules[lastCall.retModule].w
    /\ _params[ImportStore][param_with_module_name(lastCall.name, "w")]
          = modules[lastCall.retModule].w
====
